---------------------------- MODULE Spec2Model ----------------------------
(***************************************************************************)
(* A model of mmctools/coupling/sowfa.py: the BoundaryCoupling writer      *)
(* (points file, per-timestep scalar and vector field files) and the       *)
(* InternalCoupling writer (write_BCs, write_ICs, write_timeheight).       *)
(*                                                                         *)
(* Labeled arrays (xarray.DataArray) are records                           *)
(*     [dims |-> <<names>>, shape |-> <<lengths>>, data |-> <<values>>]    *)
(* with data in row-major (C) order of dims.  Timestamps are whole seconds *)
(* on one clock, so (datetime - dateref)/1s is a subtraction.              *)
(* The text/binary encoding and the gzip wrapper of a file are not part of *)
(* the model: a file is the sequence of records np.savetxt / tobytes gets. *)
(***************************************************************************)
EXTENDS Integers, Sequences, FiniteSets, TLC

(* ------------------------------ bounds --------------------------------- *)

\* longest in-plane coordinate axis of a generated dataset
MaxLen == 2

\* longest datetime axis of a generated dataset
MaxTimes == 2

(* --------------------------- program constants ------------------------- *)

\* Python's None for an optional date argument (dates are naturals)
None == -1

\* _check_xarray_dataset(expected_dims=['datetime','height','x','y'])
expected_dims == <<"datetime", "height", "x", "y">>

\* the priority list of write(): [dim for dim in ['x','y','height'] if dim in dims]
canonical_dims == <<"x", "y", "height">>

(* ------------------------------ helpers -------------------------------- *)

Range(s) == {s[i] : i \in DOMAIN s}

\* position of e in sequence s (list.index)
IndexOf(s, e) == CHOOSE i \in DOMAIN s : s[i] = e

\* [d for d in s if d not in rm]
Without(s, rm) == SelectSeq(s, LAMBDA d : d \notin rm)

RECURSIVE Prod(_)
Prod(s) == IF s = <<>> THEN 1 ELSE Head(s) * Prod(Tail(s))

\* row-major stride of axis i of an array of the given shape
Stride(shape, i) == Prod(SubSeq(shape, i + 1, Len(shape)))

\* multi-index (0-based) of the k-th (1-based) element in row-major order
Unravel(k, shape) ==
    [i \in DOMAIN shape |-> ((k - 1) \div Stride(shape, i)) % shape[i]]

RECURSIVE RavelFrom(_, _, _)
RavelFrom(idx, shape, i) ==
    IF i > Len(shape) THEN 0
    ELSE idx[i] * Stride(shape, i) + RavelFrom(idx, shape, i + 1)

\* 1-based row-major position of a 0-based multi-index
Ravel(idx, shape) == 1 + RavelFrom(idx, shape, 1)

Size(arr) == Prod(arr.shape)

(* ------------------------ labeled-array operations --------------------- *)

\* DataArray.transpose(*order): order is a permutation of arr.dims
Transpose(arr, order) ==
    LET shape == [i \in DOMAIN order |-> arr.shape[IndexOf(arr.dims, order[i])]]
        old(k) == LET n == Unravel(k, shape)
                  IN  [j \in DOMAIN arr.dims |-> n[IndexOf(order, arr.dims[j])]]
    IN  [dims  |-> order,
         shape |-> shape,
         data  |-> [k \in 1..Prod(shape) |-> arr.data[Ravel(old(k), arr.shape)]]]

\* DataArray.expand_dims({dim: coord}): the new axis goes in front, the
\* array is repeated along it
ExpandDimsTiled(arr, dim, n) ==
    [dims  |-> <<dim>> \o arr.dims,
     shape |-> <<n>> \o arr.shape,
     data  |-> [k \in 1..(n * Size(arr)) |-> arr.data[((k - 1) \div n) + 1]]]

ExpandDims(arr, dim, n) ==
    [dims  |-> <<dim>> \o arr.dims,
     shape |-> <<n>> \o arr.shape,
     data  |-> [k \in 1..(n * Size(arr)) |-> arr.data[((k - 1) % Size(arr)) + 1]]]

\* DataArray.swap_dims({old: new})
SwapDims(arr, old, new) ==
    [arr EXCEPT !.dims = [i \in DOMAIN arr.dims |->
                             IF arr.dims[i] = old THEN new ELSE arr.dims[i]]]

\* positional selection of the entries keep (1-based, increasing) along dim;
\* an array without that dim is returned as it is
Take(arr, dim, keep) ==
    IF dim \notin Range(arr.dims) THEN arr
    ELSE LET a     == IndexOf(arr.dims, dim)
             shape == [arr.shape EXCEPT ![a] = Len(keep)]
             old(k) == LET n == Unravel(k, shape)
                       IN  [n EXCEPT ![a] = keep[n[a] + 1] - 1]
         IN  [dims  |-> arr.dims,
              shape |-> shape,
              data  |-> [k \in 1..Prod(shape) |-> arr.data[Ravel(old(k), arr.shape)]]]

\* iteration over a DataArray: the t-th entry along the first axis, raveled
\* in C order (.values.ravel(order='C'))
SliceRavel(arr, t) ==
    LET m == Prod(Tail(arr.shape))
    IN  SubSeq(arr.data, (t - 1) * m + 1, t * m)


(* ------------------------- input datasets (xarray) --------------------- *)

\* the timestamps input data may carry (seconds), in order; the last two
\* are one second apart and more than 10^6 s after the first
TimeStamps == <<100, 1000100, 1000101>>

\* datetime coordinates: MaxTimes consecutive timestamps (all of them when
\* there are fewer)
TimeAxes ==
    { SubSeq(TimeStamps, i, i + MaxTimes - 1) :
        i \in { j \in DOMAIN TimeStamps :
                  j = 1 \/ j + MaxTimes - 1 <= Len(TimeStamps) } }

\* coordinate values of a spatial axis of length n; the axes do not share values
AxisBase(d) == CASE d = "x" -> 10 [] d = "y" -> 20 [] d = "height" -> 30 [] OTHER -> 40

AxisCoord(d, n) == [dims |-> <<d>>, shape |-> <<n>>, data |-> [i \in 1..n |-> AxisBase(d) + i]]

ScalarCoord(v) == [dims |-> <<>>, shape |-> <<>>, data |-> <<v>>]

TimeCoord(times) == [dims |-> <<"datetime">>, shape |-> <<Len(times)>>, data |-> times]

\* the value a generated data variable holds at a (0-based) index per axis:
\* different at every cell and for every variable
AxisWeight(d) ==
    CASE d = "x" -> 1 [] d = "y" -> 5 [] d = "height" -> 25 [] d = "datetime" -> 125
      [] OTHER -> 0

VarBase(v) == CASE v = "T" -> 1000 [] v = "U" -> 2000 [] v = "V" -> 3000 [] OTHER -> 4000

RECURSIVE CellValue(_, _, _)
CellValue(dims, idx, j) ==
    IF j > Len(dims) THEN 0
    ELSE AxisWeight(dims[j]) * idx[j] + CellValue(dims, idx, j + 1)

\* a data variable stored with its axes in the order dims
MkVar(v, dims, len) ==
    LET shape == [j \in DOMAIN dims |-> len[dims[j]]]
    IN  [dims  |-> dims,
         shape |-> shape,
         data  |-> [k \in 1..Prod(shape) |->
                       VarBase(v) + CellValue(dims, Unravel(k, shape), 1)]]

\* the orders in which a variable over three axes can be stored
Orders(d1, d2, d3) ==
    { <<d1, d2, d3>>, <<d1, d3, d2>>, <<d2, d1, d3>>,
      <<d2, d3, d1>>, <<d3, d1, d2>>, <<d3, d2, d1>> }

\* A boundary plane normal to constdim: datetime and the two other spatial
\* axes are dimensions, constdim is a scalar coordinate.  T is stored over
\* all three axes in the order given, U lacks the second in-plane axis,
\* V lacks the first, W has the datetime axis only.
PlaneDataset(constdim, order, n1, n2, times) ==
    LET inplane == Without(canonical_dims, {constdim})
        len == [d \in {"datetime", inplane[1], inplane[2]} |->
                   IF d = "datetime" THEN Len(times)
                   ELSE IF d = inplane[1] THEN n1 ELSE n2]
    IN  [dims   |-> order,
         coords |-> [d \in {"datetime", "x", "y", "height"} |->
                       IF d = "datetime" THEN TimeCoord(times)
                       ELSE IF d = constdim THEN ScalarCoord(AxisBase(d))
                       ELSE AxisCoord(d, len[d])],
         vars   |-> [v \in {"T", "U", "V", "W"} |->
                       CASE v = "T" -> MkVar(v, order, len)
                         [] v = "U" -> MkVar(v, Without(order, {inplane[2]}), len)
                         [] v = "V" -> MkVar(v, Without(order, {inplane[1]}), len)
                         [] OTHER   -> MkVar(v, <<"datetime">>, len)]]

PlaneDatasets ==
    UNION { { PlaneDataset(c, o, n1, n2, t) :
                o \in Orders("datetime", Without(canonical_dims, {c})[1],
                             Without(canonical_dims, {c})[2]),
                n1 \in 1..MaxLen, n2 \in {MaxLen}, t \in TimeAxes } :
            c \in Range(canonical_dims) }

\* Datasets of any other shape: the dimensions dims (each of length 1, two
\* timestamps), scalar coordinates for the names in scalars, no coordinate
\* for the dimensions in nocoord, one variable T over all dimensions.
OddDataset(dims, scalars, nocoord) ==
    LET times == <<100, 1000100>>
        len == [d \in Range(dims) |-> IF d = "datetime" THEN Len(times) ELSE 1]
    IN  [dims   |-> dims,
         coords |-> [d \in (Range(dims) \ nocoord) \cup scalars |->
                       IF d \in scalars
                       THEN ScalarCoord(IF d = "datetime" THEN 100 ELSE AxisBase(d))
                       ELSE IF d = "datetime" THEN TimeCoord(times)
                       ELSE AxisCoord(d, 1)],
         vars   |-> [v \in {"T"} |-> MkVar(v, dims, len)]]

AllAxes == <<"datetime", "x", "y", "height", "lev">>

OddDatasets ==
    { OddDataset(Without(AllAxes, drop),
                 IF sc THEN Range(expected_dims) \cap drop ELSE {},
                 IF nc THEN {Without(AllAxes, drop)[1]} ELSE {}) :
        drop \in SUBSET Range(AllAxes) \ {Range(AllAxes)},
        sc \in BOOLEAN, nc \in BOOLEAN }

Datasets == PlaneDatasets \cup OddDatasets

\* constructor arguments
DateRefs == {None, 100, 1000100}

\* (datefrom, dateto)
DateRanges == { <<None, None>>, <<1000100, 1000100>>, <<2000000, None>>, <<None, 50>> }

(* ------------------------------- state --------------------------------- *)

VARIABLES
    ds,          \* the xarray.Dataset handed to BoundaryCoupling(...)
    phase,       \* "new", "constructed", "rejected" (constructor raised), "written"
    args,        \* the constructor's dateref, datefrom, dateto
    self_ds,     \* self.ds of the writer
    bndry_dims,  \* self.bndry_dims
    files,       \* the patch directory: path -> records of the file
    log,         \* the files written by the last write(), in order
    raised,      \* the exception the last call raised, or NoError
    fields       \* the fields argument of the last write()

bvars == <<ds, phase, args, self_ds, bndry_dims, files, log, raised, fields>>

VARIABLES
    df,        \* the pandas.DataFrame handed to InternalCoupling(...)
    iphase,    \* "new", "constructed", "rejected" (constructor raised)
    iargs,     \* the constructor's dateref, datefrom, dateto
    self_df,   \* self.df of the writer
    self_datefrom,  \* self.datefrom
    ifiles,    \* the output directory: file name -> content
    icall,     \* the last write call and its arguments
    iraised    \* the exception the last call raised, or NoError

ivars == <<df, iphase, iargs, self_df, self_datefrom, ifiles, icall, iraised>>

NoError == [exc |-> "none", at |-> "none"]

Error(e, where) == [exc |-> e, at |-> where]

NoFiles == [p \in {} |-> <<>>]

(* ---------------------- BoundaryCoupling.__init__ ---------------------- *)

RECURSIVE check_dims(_, _)
check_dims(d, i) ==
    IF i > Len(d.dims) THEN "ok"
    ELSE IF d.dims[i] \notin Range(expected_dims) THEN "AssertionError"
    ELSE IF d.dims[i] \notin DOMAIN d.coords THEN "KeyError"
    ELSE IF d.coords[d.dims[i]].dims # <<d.dims[i]>> THEN "AssertionError"
    ELSE check_dims(d, i + 1)

\* the one axis of expected_dims that is no dimension is the one axis that
\* is accepted as the plane's normal
check_xarray_dataset(d) ==
    LET dims == Without(expected_dims, Range(d.dims))
    IN  IF check_dims(d, 1) # "ok" THEN check_dims(d, 1)
        ELSE IF Len(dims) # 1 THEN "AssertionError"
        ELSE IF dims[1] \notin DOMAIN d.coords THEN "KeyError"
        ELSE "ok"

\* ds.sel(datetime=slice(datefrom, dateto)): positions of the kept timestamps
Selected(times, datefrom, dateto) ==
    SelectSeq([i \in DOMAIN times |-> i],
              LAMBDA i : times[i] >= datefrom /\ times[i] <= dateto)

Sel(d, keep) ==
    [dims   |-> d.dims,
     coords |-> [c \in DOMAIN d.coords |-> Take(d.coords[c], "datetime", keep)],
     vars   |-> [v \in DOMAIN d.vars |-> Take(d.vars[v], "datetime", keep)]]

\* tidx = (ds['datetime'] - dateref) / 1 s; ds.assign_coords(t_index=('datetime', tidx))
AssignTIndex(d, dateref) ==
    LET dt == d.coords["datetime"]
    IN  [d EXCEPT !.coords = ("t_index" :> [dt EXCEPT !.data =
                                 [i \in DOMAIN dt.data |-> dt.data[i] - dateref]]) @@ @]

IsTimeAxis(d) == "datetime" \in Range(d.dims)

\* The constructor's result for the given arguments.  With dateref=None
\* the reference is coords['datetime'][0], a DataArray, on which
\* to_datetime64() is then called: that call raises AttributeError unless the
\* installed xarray resolves it (resolves is then TRUE).
BoundaryCoupling_init(d, dateref, datefrom, dateto, resolves) ==
    LET chk   == check_xarray_dataset(d)
        times == d.coords["datetime"].data
        from  == IF datefrom = None THEN times[1] ELSE datefrom
        to    == IF dateto = None THEN times[Len(times)] ELSE dateto
        keep  == Selected(times, from, to)
        sel   == Sel(d, keep)
        ref   == IF dateref = None THEN sel.coords["datetime"].data[1] ELSE dateref
    IN  IF chk # "ok"
        THEN [raised |-> Error(chk, "_check_xarray_dataset"), ds |-> d]
        ELSE IF ~IsTimeAxis(d)
        THEN [raised |-> Error(IF datefrom = None \/ dateto = None
                               THEN "IndexError" ELSE "KeyError", "__init__"),
              ds |-> d]
        ELSE IF dateref = None /\ keep = <<>>
        THEN [raised |-> Error("IndexError", "__init__"), ds |-> sel]
        ELSE IF dateref = None /\ ~resolves
        THEN [raised |-> Error("AttributeError", "__init__"), ds |-> sel]
        ELSE [raised |-> NoError, ds |-> AssignTIndex(sel, ref)]

Construct ==
    /\ phase = "new"
    /\ \E dateref \in DateRefs, range \in DateRanges, resolves \in BOOLEAN :
         \E r \in {BoundaryCoupling_init(ds, dateref, range[1], range[2], resolves)} :
             /\ args' = [dateref |-> dateref, datefrom |-> range[1], dateto |-> range[2]]
             /\ self_ds' = r.ds
             /\ raised' = r.raised
             /\ phase' = IF r.raised = NoError THEN "constructed" ELSE "rejected"
    /\ UNCHANGED <<ds, bndry_dims, files, log, fields>>
    /\ UNCHANGED ivars


(* ------------------------ BoundaryCoupling.write ----------------------- *)

\* a scalar entry name: var and a vector entry name: (vars) of the fields dict
Scalar(name, var) == [name |-> name, vector |-> FALSE, vars |-> <<var>>]

Vector(name, vars) == [name |-> name, vector |-> TRUE, vars |-> vars]

\* the fields arguments of write(): a dict, in insertion order
FieldsArgs ==
    { <<>>,
      <<Scalar("T", "T")>>,
      <<Scalar("k", "U"), Scalar("nut", "V")>>,
      <<Scalar("p", "W"), Vector("U", <<"U", "V", "W">>)>>,
      <<Vector("U", <<"T", "V", "U">>)>>,
      <<Scalar("T", "T"), Scalar("q", "qv")>>,
      <<Scalar("q", "qv"), Scalar("T", "T")>>,
      <<Vector("U", <<"U", "V">>), Scalar("T", "T")>>,
      <<Scalar("T", "T"), Vector("U", <<"U", "V", "qv">>)>> }

RECURSIVE Log10Floor(_)
Log10Floor(n) == IF n < 10 THEN 0 ELSE 1 + Log10Floor(n \div 10)

\* '{:g}'.format(ti) for a whole ti >= 0: six significant digits.  Below
\* 10^6 the digits of ti; from 10^6 on the mantissa rounded (half to even)
\* to six digits and the exponent.  Two names are the same string exactly
\* when the records are equal.
FormatG(ti) ==
    IF ti < 10^6 THEN [sci |-> FALSE, m |-> ti, e |-> 0]
    ELSE LET e  == Log10Floor(ti)
             q  == 10^(e - 5)
             m0 == ti \div q
             r  == ti % q
             m  == IF 2 * r > q \/ (2 * r = q /\ m0 % 2 = 1) THEN m0 + 1 ELSE m0
         IN  IF m = 10^6 THEN [sci |-> TRUE, m |-> 10^5, e |-> e + 1]
             ELSE [sci |-> TRUE, m |-> m, e |-> e]

\* the patch directory itself, as the directory of a path
PatchDir == [sci |-> FALSE, m |-> None, e |-> 0]

Path(dir, name) == [dir |-> dir, name |-> name]

PointsPath == Path(PatchDir, "points")

\* np.meshgrid(x, y, height, indexing='xy') raveled: the first two axes swapped
write_points_xy(d) ==
    LET x == d.coords["x"].data
        y == d.coords["y"].data
        z == d.coords["height"].data
        shape == <<Len(y), Len(x), Len(z)>>
    IN  [k \in 1..Prod(shape) |->
            LET n == Unravel(k, shape)
            IN  <<x[n[2] + 1], y[n[1] + 1], z[n[3] + 1]>>]

\* _write_points: np.meshgrid(x, y, height, indexing='ij'), each raveled in C
\* order, stacked to (N,3)
write_points(d) ==
    LET x == d.coords["x"].data
        y == d.coords["y"].data
        z == d.coords["height"].data
        shape == <<Len(x), Len(y), Len(z)>>
    IN  [k \in 1..Prod(shape) |->
            LET n == Unravel(k, shape)
            IN  <<x[n[1] + 1], y[n[2] + 1], z[n[3] + 1]>>]

\* the in-plane axes in the order of the priority list reversed
boundary_dims_reversed(d) ==
    LET dims == Without(d.dims, {"datetime"})
    IN  SelectSeq(<<"height", "y", "x">>, LAMBDA dim : dim \in Range(dims))

\* dims = list(ds.dims); dims.remove('datetime');
\* [dim for dim in ['x','y','height'] if dim in dims]
boundary_dims(d) ==
    LET dims == Without(d.dims, {"datetime"})
    IN  SelectSeq(canonical_dims, LAMBDA dim : dim \in Range(dims))

\* add missing dimensions, if any: for dim in bndry_dims from the i-th on
RECURSIVE Broadcast(_, _, _, _)
Broadcast(d, arr, bd, i) ==
    IF i > Len(bd) THEN arr
    ELSE Broadcast(d,
                   IF bd[i] \in Range(arr.dims) THEN arr
                   ELSE ExpandDims(arr, bd[i], Len(d.coords[bd[i]].data)),
                   bd, i + 1)

\* ds[var] with the in-plane axes added, datetime swapped for t_index and
\* the axes put in the order ['t_index'] + bndry_dims
Reordered(d, bd, var) ==
    Transpose(SwapDims(Broadcast(d, d.vars[var], bd, 1), "datetime", "t_index"),
              <<"t_index">> \o bd)

skip_nonpositive(ti) == ti <= 0

\* if ti < 0: continue
skip(ti) == ti < 0

\* the files _write_boundary_scalar writes, in order
write_boundary_scalar(d, bd, fname, var) ==
    LET u == Reordered(d, bd, var)
        all == [t \in 1..u.shape[1] |->
                  [path    |-> Path(FormatG(d.coords["t_index"].data[t]), fname),
                   kind    |-> "scalar",
                   vars    |-> <<var>>,
                   tstamp  |-> d.coords["datetime"].data[t],
                   ti      |-> d.coords["t_index"].data[t],
                   dims    |-> u.dims,
                   shape   |-> u.shape,
                   content |-> SliceRavel(u, t)]]
    IN  SelectSeq(all, LAMBDA ev : ~skip(ev.ti))

\* the files _write_boundary_vector writes, in order: zip over the three
\* reordered components, stacked to (N,3)
write_boundary_vector(d, bd, fname, components) ==
    LET uvec == [c \in DOMAIN components |-> Reordered(d, bd, components[c])]
        all == [t \in 1..uvec[1].shape[1] |->
                  [path    |-> Path(FormatG(d.coords["t_index"].data[t]), fname),
                   kind    |-> "vector",
                   vars    |-> components,
                   tstamp  |-> d.coords["datetime"].data[t],
                   ti      |-> d.coords["t_index"].data[t],
                   dims    |-> uvec[1].dims,
                   shape   |-> uvec[1].shape,
                   content |-> LET ui == SliceRavel(uvec[1], t)
                                   vi == SliceRavel(uvec[2], t)
                                   wi == SliceRavel(uvec[3], t)
                               IN  [k \in DOMAIN ui |-> <<ui[k], vi[k], wi[k]>>]]]
    IN  SelectSeq(all, LAMBDA ev : ~skip(ev.ti))

\* dvar in self.ds.variables: data variables and coordinates
InVariables(d, v) == v \in DOMAIN d.vars \cup DOMAIN d.coords

\* for fieldname, dvars in fields.items(): from the i-th entry on, given
\* the files written so far
RECURSIVE write_fields(_, _, _, _, _)
write_fields(d, bd, flds, i, written) ==
    IF i > Len(flds) THEN [log |-> written, raised |-> NoError]
    ELSE LET f == flds[i]
         IN  IF f.vector
             THEN IF \E c \in DOMAIN f.vars : ~InVariables(d, f.vars[c])
                  THEN [log |-> written, raised |-> Error("AssertionError", "write")]
                  ELSE IF Len(f.vars) # 3
                  THEN [log |-> written, raised |-> Error("AssertionError", "write")]
                  ELSE write_fields(d, bd, flds, i + 1,
                                    written \o write_boundary_vector(d, bd, f.name, f.vars))
             ELSE IF ~InVariables(d, f.vars[1])
                  THEN [log |-> written, raised |-> Error("AssertionError", "write")]
                  ELSE write_fields(d, bd, flds, i + 1,
                                    written \o write_boundary_scalar(d, bd, f.name, f.vars[1]))

\* the directory after the files of a log are created or overwritten in order
RECURSIVE Store(_, _, _)
Store(fs, events, i) ==
    IF i > Len(events) THEN fs
    ELSE Store((events[i].path :> events[i].content) @@ fs, events, i + 1)

PointsEvent(d) ==
    [path |-> PointsPath, kind |-> "points", vars |-> <<>>, tstamp |-> None,
     ti |-> None, dims |-> <<"x", "y", "height">>,
     shape |-> <<Len(d.coords["x"].data), Len(d.coords["y"].data),
                 Len(d.coords["height"].data)>>,
     content |-> write_points(d)]

\* write(fields): bndry_dims, the points file, then the fields in order;
\* an assertion that fails ends the call and leaves what was written
write(d, fs, flds) ==
    LET bd == boundary_dims(d)
    IN  IF Len(bd) # 2
        THEN [bndry_dims |-> bd, log |-> <<>>, files |-> fs,
              raised |-> Error("AssertionError", "write")]
        ELSE LET r == write_fields(d, bd, flds, 1, <<PointsEvent(d)>>)
             IN  [bndry_dims |-> bd, log |-> r.log,
                  files |-> Store(fs, r.log, 1), raised |-> r.raised]

Write ==
    /\ phase = "constructed"
    /\ \E flds \in FieldsArgs : \E r \in {write(self_ds, files, flds)} :
             /\ fields' = flds
             /\ bndry_dims' = r.bndry_dims
             /\ files' = r.files
             /\ log' = r.log
             /\ raised' = r.raised
    /\ phase' = "written"
    /\ UNCHANGED <<ds, args, self_ds>>
    /\ UNCHANGED ivars

(* ======================== InternalCoupling ============================= *)

\* a missing value (numpy.nan) in a column of numbers >= 0
NaN == -2

\* Python's None for a field-name argument
NoField == "None"

\* the one file name the calls write to
OutFile == "out"

\* the columns of the generated input: w (and any other name) is absent
InputColumns == {"u", "v", "theta"}

ColumnBase(c) == CASE c = "u" -> 100 [] c = "v" -> 200 [] OTHER -> 300

\* row of the i-th time and the j-th height: datetime index, height column,
\* a different value in every cell of every column
GridRow(i, j) ==
    [datetime |-> 100 * i,
     height   |-> 10 * j,
     t_index  |-> None,
     val      |-> [c \in InputColumns |-> ColumnBase(c) + 10 * i + j]]

\* all rows of nt times and nz heights, the heights of one time together
Grid(nt, nz) ==
    [k \in 1..(nt * nz) |-> GridRow(((k - 1) \div nz) + 1, ((k - 1) % nz) + 1)]

Reverse(s) == [k \in DOMAIN s |-> s[Len(s) + 1 - k]]

\* what is wrong with the input: nothing, a missing theta in its first row,
\* a missing u in its last row, or the last row absent
Holes == {"none", "theta_first", "u_last", "row_last"}

Pierce(rows, hole) ==
    CASE hole = "theta_first" -> [rows EXCEPT ![1].val["theta"] = NaN]
      [] hole = "u_last"      -> [rows EXCEPT ![Len(rows)].val["u"] = NaN]
      [] hole = "row_last"    -> SubSeq(rows, 1, Len(rows) - 1)
      [] OTHER                -> rows

\* input DataFrames: MaxTimes times, 1..MaxLen heights, rows ordered by
\* (time, height) or in the reverse of that order
Frames ==
    { [columns |-> InputColumns,
       rows    |-> IF rev THEN Reverse(Pierce(Grid(MaxTimes, nz), hole))
                   ELSE Pierce(Grid(MaxTimes, nz), hole)] :
        nz \in 1..MaxLen, hole \in Holes, rev \in BOOLEAN }

IDateRefs == {None, 100}

IDateRanges ==
    { <<None, None>>, <<100, 200>>, <<200, 200>>, <<150, None>>, <<500, None>> }

NoCall == [op |-> "none", fieldname |-> NoField, fact |-> 1, xmom |-> NoField,
           ymom |-> NoField, zmom |-> NoField, temp |-> NoField]

\* self.df = df.loc[(df.index>=datefrom) & (df.index<=dateto)], the
\* assertion on it, and the t_index column
InternalCoupling_init(d, dateref, from0, to0) ==
    LET from == IF from0 = None THEN d.rows[1].datetime ELSE from0
        to   == IF to0 = None THEN d.rows[Len(d.rows)].datetime ELSE to0
        rows == SelectSeq(d.rows, LAMBDA r : r.datetime >= from /\ r.datetime <= to)
    IN  IF rows = <<>>
        THEN [raised |-> Error("AssertionError", "__init__"), df |-> d, datefrom |-> from]
        ELSE [raised |-> NoError,
              df |-> [columns |-> d.columns,
                      rows |-> [k \in DOMAIN rows |->
                                  [rows[k] EXCEPT !.t_index =
                                      IF dateref # None THEN rows[k].datetime - dateref
                                      ELSE rows[k].datetime]]],
              datefrom |-> from]

\* 'name in df.columns': the fields, height and t_index
Columns(d) == d.columns \cup {"height", "t_index"}

\* df[c] of one row
Value(r, c) ==
    CASE c = "height" -> r.height [] c = "t_index" -> r.t_index [] OTHER -> r.val[c]

isna_first(rows, c) == rows # <<>> /\ Value(rows[1], c) = NaN

\* pd.isna(df[c]).any()
isna_any(rows, c) == \E k \in DOMAIN rows : Value(rows[k], c) = NaN

TextFile(kind, blocks) == [kind |-> kind, blocks |-> blocks]

Block(label, rows) == [label |-> label, rows |-> rows]

\* write_BCs(fname, fieldname, fact)
write_BCs(d, fs, fname, fieldname, fact) ==
    IF fieldname \notin Columns(d)
    THEN [raised |-> Error("AssertionError", "write_BCs"), files |-> fs, df |-> d]
    ELSE IF isna_any(d.rows, fieldname)
    THEN [raised |-> Error("AssertionError", "write_BCs"), files |-> fs, df |-> d]
    ELSE [raised |-> NoError,
          files  |-> (fname :> TextFile("BCs", <<Block("",
                        [k \in DOMAIN d.rows |->
                            <<d.rows[k].t_index, fact * Value(d.rows[k], fieldname)>>])>>)) @@ fs,
          df     |-> d]

\* df.loc[:,field] = 0.0 for every requested field that is no column
RECURSIVE ZeroFill(_, _, _)
ZeroFill(d, names, i) ==
    IF i > Len(names) THEN d
    ELSE IF names[i] = NoField \/ names[i] \in Columns(d) THEN ZeroFill(d, names, i + 1)
    ELSE ZeroFill([columns |-> d.columns \cup {names[i]},
                   rows |-> [k \in DOMAIN d.rows |->
                               [d.rows[k] EXCEPT !.val = (names[i] :> 0) @@ @]]],
                  names, i + 1)

\* write_ICs(fname, xmom, ymom, temp): the rows at self.datefrom.  .loc of
\* a label that one row carries is a Series, which has no .columns
write_ICs(d, from, fs, fname, xmom, ymom, temp) ==
    LET at   == SelectSeq(d.rows, LAMBDA r : r.datetime = from)
        loc  == ZeroFill([columns |-> d.columns, rows |-> at], <<xmom, ymom, temp>>, 1)
    IN  IF at = <<>>
        THEN [raised |-> Error("KeyError", "write_ICs"), files |-> fs, df |-> d]
        ELSE IF Len(at) = 1
        THEN [raised |-> Error("AttributeError", "write_ICs"), files |-> fs, df |-> d]
        ELSE IF \E c \in {xmom, ymom, temp} : isna_any(loc.rows, c)
        THEN [raised |-> Error("AssertionError", "write_ICs"), files |-> fs, df |-> d]
        ELSE [raised |-> NoError,
              files  |-> (fname :> TextFile("ICs", <<Block("",
                            [k \in DOMAIN loc.rows |->
                                <<loc.rows[k].height, Value(loc.rows[k], xmom),
                                  Value(loc.rows[k], ymom), Value(loc.rows[k], temp)>>])>>)) @@ fs,
              df     |-> d]

\* Series.unique(): the values in the order of their first appearance
RECURSIVE Unique(_)
Unique(s) ==
    IF s = <<>> THEN <<>>
    ELSE LET init == Unique(SubSeq(s, 1, Len(s) - 1))
         IN  IF s[Len(s)] \in Range(init) THEN init ELSE Append(init, s[Len(s)])

\* the elements of a set of numbers in increasing order
RECURSIVE Sorted(_)
Sorted(S) ==
    IF S = {} THEN <<>>
    ELSE LET least == CHOOSE a \in S : \A b \in S : a <= b
         IN  <<least>> \o Sorted(S \ {least})

\* df.pivot(columns='height', values=...)[field].values: one row per
\* datetime and one column per height, both in increasing order; NaN where
\* the input has no row
Pivot(d, field) ==
    LET times   == Sorted({d.rows[k].datetime : k \in DOMAIN d.rows})
        heights == Sorted({d.rows[k].height : k \in DOMAIN d.rows})
    IN  [i \in DOMAIN times |-> [j \in DOMAIN heights |->
            LET at == { k \in DOMAIN d.rows : /\ d.rows[k].datetime = times[i]
                                              /\ d.rows[k].height = heights[j] }
            IN  IF at = {} THEN NaN ELSE Value(d.rows[CHOOSE k \in at : TRUE], field)]]

\* pivot raises ValueError when an (index, column) pair occurs twice
Duplicated(d) ==
    \E k, l \in DOMAIN d.rows :
        k # l /\ d.rows[k].datetime = d.rows[l].datetime /\ d.rows[k].height = d.rows[l].height

\* np.concatenate((ts.reshape((nt,1)), df_pivot[field].values), axis=1)
Table(ts, piv) == [i \in DOMAIN ts |-> <<ts[i]>> \o piv[i]]

momentum_always(have) == \A i \in DOMAIN have : have[i]

\* if any(have_xyz_mom): assert all(have_xyz_mom)
momentum_complete(have) ==
    (\E i \in DOMAIN have : have[i]) => (\A i \in DOMAIN have : have[i])

\* write_timeheight(fname, xmom, ymom, zmom, temp); self.df keeps the
\* zero columns also when a later assertion fails
write_timeheight(d, fs, fname, xmom, ymom, zmom, temp) ==
    LET have  == [i \in 1..3 |-> <<xmom, ymom, zmom>>[i] # NoField]
        zs    == Unique([k \in DOMAIN d.rows |-> d.rows[k].height])
        ts    == Unique([k \in DOMAIN d.rows |-> d.rows[k].t_index])
        df2   == ZeroFill(d, <<xmom, ymom, zmom, temp>>, 1)
        names == SelectSeq(<<xmom, ymom, zmom, temp>>, LAMBDA n : n # NoField)
        hs    == [j \in DOMAIN zs |-> <<zs[j]>>]
        mom   == IF have[1]
                 THEN << Block("sourceHeightsMomentum", hs),
                         Block("sourceTableMomentumX", Table(ts, Pivot(df2, xmom))),
                         Block("sourceTableMomentumY", Table(ts, Pivot(df2, ymom))),
                         Block("sourceTableMomentumZ", Table(ts, Pivot(df2, zmom))) >>
                 ELSE <<>>
        tmp   == IF temp # NoField
                 THEN << Block("sourceHeightsTemperature", hs),
                         Block("sourceTableTemperature", Table(ts, Pivot(df2, temp))) >>
                 ELSE <<>>
    IN  IF ~momentum_complete(have)
        THEN [raised |-> Error("AssertionError", "write_timeheight"), files |-> fs, df |-> d]
        ELSE IF names # <<>> /\ Duplicated(df2)
        THEN [raised |-> Error("ValueError", "write_timeheight"), files |-> fs, df |-> df2]
        ELSE IF \E n \in Range(names) :
                   \E i \in DOMAIN Pivot(df2, n) : \E j \in DOMAIN Pivot(df2, n)[i] :
                       Pivot(df2, n)[i][j] = NaN
        THEN [raised |-> Error("AssertionError", "write_timeheight"), files |-> fs, df |-> df2]
        ELSE [raised |-> NoError,
              files  |-> (fname :> TextFile("timeheight", mom \o tmp)) @@ fs,
              df     |-> df2]

IConstruct ==
    /\ iphase = "new"
    /\ \E dateref \in IDateRefs, range \in IDateRanges :
         \E r \in {InternalCoupling_init(df, dateref, range[1], range[2])} :
             /\ iargs' = [dateref |-> dateref, datefrom |-> range[1], dateto |-> range[2]]
             /\ self_df' = r.df
             /\ self_datefrom' = r.datefrom
             /\ iraised' = r.raised
             /\ iphase' = IF r.raised = NoError THEN "constructed" ELSE "rejected"
    /\ UNCHANGED bvars
    /\ UNCHANGED <<df, ifiles, icall>>

WriteBCs ==
    /\ iphase = "constructed"
    /\ \E fieldname \in {"u", "theta", "w"}, fact \in {1, -1} :
         \E r \in {write_BCs(self_df, ifiles, OutFile, fieldname, fact)} :
             /\ icall' = [NoCall EXCEPT !.op = "write_BCs", !.fieldname = fieldname,
                                        !.fact = fact]
             /\ ifiles' = r.files
             /\ self_df' = r.df
             /\ iraised' = r.raised
    /\ UNCHANGED bvars
    /\ UNCHANGED <<df, iphase, iargs, self_datefrom>>

WriteICs ==
    /\ iphase = "constructed"
    /\ \E temp \in {"theta", "T"} :
         \E r \in {write_ICs(self_df, self_datefrom, ifiles, OutFile, "u", "v", temp)} :
             /\ icall' = [NoCall EXCEPT !.op = "write_ICs", !.xmom = "u", !.ymom = "v",
                                        !.temp = temp]
             /\ ifiles' = r.files
             /\ self_df' = r.df
             /\ iraised' = r.raised
    /\ UNCHANGED bvars
    /\ UNCHANGED <<df, iphase, iargs, self_datefrom>>

WriteTimeHeight ==
    /\ iphase = "constructed"
    /\ \E xmom \in {NoField, "u"}, ymom \in {NoField, "v"}, zmom \in {NoField, "w"},
          temp \in {NoField, "theta"} :
         \E r \in {write_timeheight(self_df, ifiles, OutFile, xmom, ymom, zmom, temp)} :
             /\ icall' = [NoCall EXCEPT !.op = "write_timeheight", !.xmom = xmom,
                                        !.ymom = ymom, !.zmom = zmom, !.temp = temp]
             /\ ifiles' = r.files
             /\ self_df' = r.df
             /\ iraised' = r.raised
    /\ UNCHANGED bvars
    /\ UNCHANGED <<df, iphase, iargs, self_datefrom>>

(* ------------------------- the two writers ----------------------------- *)

vars == <<bvars, ivars>>

\* no InternalCoupling in a run of the BoundaryCoupling writer
NoInternal ==
    /\ df = [columns |-> {}, rows |-> <<>>]
    /\ iphase = "none"
    /\ iargs = [dateref |-> None, datefrom |-> None, dateto |-> None]
    /\ self_df = df
    /\ self_datefrom = None
    /\ ifiles = NoFiles
    /\ icall = NoCall
    /\ iraised = NoError

\* no BoundaryCoupling in a run of the InternalCoupling writer
NoBoundary ==
    /\ ds = [dims |-> <<>>, coords |-> NoFiles, vars |-> NoFiles]
    /\ phase = "none"
    /\ args = [dateref |-> None, datefrom |-> None, dateto |-> None]
    /\ self_ds = ds
    /\ bndry_dims = <<>>
    /\ files = NoFiles
    /\ log = <<>>
    /\ raised = NoError
    /\ fields = <<>>

InitBoundary ==
    /\ ds \in Datasets
    /\ phase = "new"
    /\ args = [dateref |-> None, datefrom |-> None, dateto |-> None]
    /\ self_ds = ds
    /\ bndry_dims = <<>>
    /\ files = NoFiles
    /\ log = <<>>
    /\ raised = NoError
    /\ fields = <<>>

Init == InitBoundary /\ NoInternal

Next == Construct \/ Write

Spec == Init /\ [][Next]_vars

InitInternal ==
    /\ NoBoundary
    /\ df \in Frames
    /\ iphase = "new"
    /\ iargs = [dateref |-> None, datefrom |-> None, dateto |-> None]
    /\ self_df = df
    /\ self_datefrom = None
    /\ ifiles = NoFiles
    /\ icall = NoCall
    /\ iraised = NoError

NextInternal == IConstruct \/ WriteBCs \/ WriteICs \/ WriteTimeHeight

SpecInternal == InitInternal /\ [][NextInternal]_vars

(* ----------------- what the claims speak of (boundary) ----------------- *)

\* the explicit nested loops: x outer, y middle, height inner
RECURSIVE LoopHeight(_, _, _, _)
LoopHeight(x, y, zs, l) ==
    IF l > Len(zs) THEN <<>>
    ELSE << <<x, y, zs[l]>> >> \o LoopHeight(x, y, zs, l + 1)

RECURSIVE LoopY(_, _, _, _)
LoopY(x, ys, zs, j) ==
    IF j > Len(ys) THEN <<>>
    ELSE LoopHeight(x, ys[j], zs, 1) \o LoopY(x, ys, zs, j + 1)

RECURSIVE LoopX(_, _, _, _)
LoopX(xs, ys, zs, i) ==
    IF i > Len(xs) THEN <<>>
    ELSE LoopY(xs[i], ys, zs, 1) \o LoopX(xs, ys, zs, i + 1)

\* the input variable's value at coordinate labels (ds[var].sel(...)); an
\* axis the variable does not have is not looked at
ValueAt(var, label) ==
    LET arr == ds.vars[var]
        idx == [j \in DOMAIN arr.dims |->
                   IndexOf(ds.coords[arr.dims[j]].data, label[arr.dims[j]]) - 1]
    IN  arr.data[Ravel(idx, arr.shape)]

LabelOf(tstamp, point) ==
    [d \in {"datetime", "x", "y", "height"} |->
        CASE d = "datetime" -> tstamp
          [] d = "x" -> point[1]
          [] d = "y" -> point[2]
          [] OTHER -> point[3]]

FieldEvents == { i \in DOMAIN log : log[i].kind # "points" }

\* the timestamps of the selected date range, the reference date and the
\* timesteps at or after it, from the constructor's arguments
SelectedStamps ==
    LET times == ds.coords["datetime"].data
        from  == IF args.datefrom = None THEN times[1] ELSE args.datefrom
        to    == IF args.dateto = None THEN times[Len(times)] ELSE args.dateto
    IN  { times[i] : i \in { j \in DOMAIN times : times[j] >= from /\ times[j] <= to } }

RefDate ==
    IF args.dateref # None THEN args.dateref
    ELSE CHOOSE t \in SelectedStamps : \A u \in SelectedStamps : t <= u

Retained == { t \in SelectedStamps : t - RefDate >= 0 }

\* C1: the records of the points file are the nested-loop Cartesian product
\* of the x, y and height coordinates, x outermost and height innermost,
\* whichever axis is the plane's normal.
C1_PointsAreNestedLoops ==
    (phase = "written" /\ log # <<>>) =>
        /\ log[1].path = PointsPath
        /\ files[PointsPath] = log[1].content
        /\ log[1].content = LoopX(ds.coords["x"].data, ds.coords["y"].data,
                                  ds.coords["height"].data, 1)

C1_Witness ==
    /\ phase = "written"
    /\ PointsPath \in DOMAIN files
    /\ ds.coords["height"].dims = <<>>
    /\ Len(ds.coords["x"].data) >= 2
    /\ Len(ds.coords["y"].data) >= 2

\* C2: in one write() call the k-th record of every field file written is
\* the value (the three component values, for a vector) the input data
\* holds at the file's timestamp and at the coordinates of the k-th record
\* of the points file, in whatever axis order the variable is stored.
C2_FieldsFollowPoints ==
    phase = "written" =>
        \A i \in FieldEvents : \E ev \in {log[i]} : \E pts \in {log[1].content} :
            /\ Len(ev.content) = Len(pts)
            /\ \A k \in DOMAIN pts :
                 IF ev.kind = "scalar"
                 THEN ev.content[k] = ValueAt(ev.vars[1], LabelOf(ev.tstamp, pts[k]))
                 ELSE ev.content[k] =
                        [c \in 1..3 |-> ValueAt(ev.vars[c], LabelOf(ev.tstamp, pts[k]))]

C2_Witness ==
    /\ phase = "written"
    /\ ds.vars["T"].dims[3] = "datetime"
    /\ \E i, j \in FieldEvents :
         /\ log[i].kind = "vector" /\ log[i].vars[1] = "T"
         /\ log[j].kind = "vector" /\ log[j].tstamp # log[i].tstamp
         /\ Len(log[j].content) >= 4

\* the in-plane axes of the input, in the order x, y, height
InPlane == SelectSeq(canonical_dims, LAMBDA d : d \in Range(ds.dims))

\* the input variable's value at a timestamp and at positions i, j (0-based)
\* along the two in-plane axes; an axis the variable lacks is not looked at
OriginalAt(var, tstamp, i, j) ==
    LET arr == ds.vars[var]
        idx == [a \in DOMAIN arr.dims |->
                   CASE arr.dims[a] = "datetime" ->
                          IndexOf(ds.coords["datetime"].data, tstamp) - 1
                     [] arr.dims[a] = InPlane[1] -> i
                     [] OTHER -> j]
    IN  arr.data[Ravel(idx, arr.shape)]

Lacking(var) == Range(InPlane) \ Range(ds.vars[var].dims)

\* C3: a field (a scalar, or a component of a vector) that lacks in-plane
\* axes is written with the axes (time, in-plane 1, in-plane 2) in that
\* order, and at every index along a lacking axis the values written are
\* the original values of that timestep.
C3_BroadcastRepeatsOriginal ==
    phase = "written" =>
        \A e \in FieldEvents : \E ev \in {log[e]} :
            \A c \in DOMAIN ev.vars :
                Lacking(ev.vars[c]) # {} =>
                    /\ ev.dims = <<"t_index", InPlane[1], InPlane[2]>>
                    /\ ev.shape[2] = Len(ds.coords[InPlane[1]].data)
                    /\ ev.shape[3] = Len(ds.coords[InPlane[2]].data)
                    /\ Len(ev.content) = ev.shape[2] * ev.shape[3]
                    /\ \A i \in 0..(ev.shape[2] - 1), j \in 0..(ev.shape[3] - 1) :
                         LET rec == ev.content[i * ev.shape[3] + j + 1]
                         IN  (IF ev.kind = "scalar" THEN rec ELSE rec[c])
                                = OriginalAt(ev.vars[c], ev.tstamp, i, j)

C3_Witness ==
    /\ phase = "written"
    /\ \E e, f \in FieldEvents :
         /\ log[e].kind = "vector" /\ log[e].vars = <<"U", "V", "W">>
         /\ log[e].shape[2] >= 2 /\ log[e].shape[3] >= 2
         /\ log[f].kind = "scalar" /\ log[f].vars = <<"W">>
         /\ log[f].tstamp # log[e].tstamp

\* the write events of the files of one entry of the fields mapping
EventsOf(name) == { i \in FieldEvents : log[i].path.name = name }

\* C4: a successful write() writes, for every field, one file for each
\* timestep of the selected date range whose seconds since the reference
\* date are >= 0 (0 included) and none for the timesteps before the
\* reference date; for scalars and vectors alike.
C4_SkipsExactlyNegativeTimes ==
    (phase = "written" /\ raised = NoError) =>
        \A n \in DOMAIN fields :
            /\ { log[i].tstamp : i \in EventsOf(fields[n].name) } = Retained
            /\ Cardinality(EventsOf(fields[n].name)) = Cardinality(Retained)
            /\ \A i \in EventsOf(fields[n].name) :
                 /\ log[i].ti = log[i].tstamp - RefDate
                 /\ log[i].kind = IF fields[n].vector THEN "vector" ELSE "scalar"

C4_Witness ==
    /\ phase = "written" /\ raised = NoError
    /\ \E t \in SelectedStamps : t < RefDate
    /\ RefDate \in Retained
    /\ \E n, m \in DOMAIN fields : fields[n].vector /\ ~fields[m].vector
    /\ \E i \in FieldEvents : log[i].ti = 0 /\ log[i].kind = "vector"
    /\ \E i \in FieldEvents : log[i].ti = 0 /\ log[i].kind = "scalar"

\* the timestep subdirectories of the patch directory
TimeDirs == { p.dir : p \in DOMAIN files \ {PointsPath} }

\* C7: after a successful write() the patch directory holds the points
\* file, written once, and one subdirectory per retained timestep, each
\* holding one file per requested field with that timestep's data: no file
\* of one timestep is overwritten by another timestep's.
C7_OneDirectoryPerTimestep ==
    (phase = "written" /\ raised = NoError) =>
        /\ PointsPath \in DOMAIN files
        /\ Cardinality({ i \in DOMAIN log : log[i].kind = "points" }) = 1
        /\ fields # <<>> => Cardinality(TimeDirs) = Cardinality(Retained)
        /\ \A dir \in TimeDirs :
             { p.name : p \in { q \in DOMAIN files : q.dir = dir } }
                = { fields[n].name : n \in DOMAIN fields }
        /\ \A i \in FieldEvents : files[log[i].path] = log[i].content

\* C8: a write() that fails because of a malformed or absent field leaves
\* no output: neither the points file nor any field file.
C8_NoPartialOutput ==
    (phase = "written" /\ raised # NoError) => DOMAIN files = {}

\* C9: construction succeeds only for a dataset whose axes are among
\* datetime, height, x, y, each a 1-D coordinate, with exactly one of x, y,
\* height missing; a dataset with an unexpected axis, with two or more of
\* x, y, height missing or with all three present is rejected by the
\* constructor's validation.
C9_ValidationRejects ==
    LET dims    == Range(ds.dims)
        spatial == Range(canonical_dims)
        good    == /\ dims \subseteq Range(expected_dims)
                   /\ \A d \in dims : d \in DOMAIN ds.coords /\ ds.coords[d].dims = <<d>>
                   /\ Cardinality(spatial \ dims) = 1
        bad     == \/ ~(dims \subseteq Range(expected_dims))
                   \/ Cardinality(spatial \ dims) >= 2
                   \/ spatial \subseteq dims
    IN  /\ phase \in {"constructed", "written"} => good
        /\ (phase = "rejected" /\ bad) => raised.at = "_check_xarray_dataset"

\* C10: no writer is constructed with a date range that selects no
\* timestamps, whether or not a reference date is given.
C10_NoEmptyDateRange ==
    phase \in {"constructed", "written"} =>
        /\ SelectedStamps # {}
        /\ Len(self_ds.coords["datetime"].data) > 0

(* ---------------- what the claims speak of (internal) ------------------ *)

\* how many of xmom, ymom, zmom a write_timeheight call was given
MomentumGiven(call) ==
    Cardinality({ i \in 1..3 : <<call.xmom, call.ymom, call.zmom>>[i] # NoField })

\* the field names a call was asked to write
Requested(call) ==
    CASE call.op = "write_BCs" -> {call.fieldname}
      [] call.op = "write_ICs" -> {call.xmom, call.ymom, call.temp}
      [] OTHER -> {call.xmom, call.ymom, call.zmom, call.temp} \ {NoField}

\* some requested column of the data has a missing value in one of the rows
MissingIn(d, rows, call) ==
    \E c \in Requested(call) \cap Columns(d) :
        \E k \in DOMAIN rows : Value(rows[k], c) = NaN

\* every time of the data has exactly one row at every height of the data
FullGrid(d) ==
    \A k, l \in DOMAIN d.rows :
        Cardinality({ m \in DOMAIN d.rows : /\ d.rows[m].datetime = d.rows[k].datetime
                                            /\ d.rows[m].height = d.rows[l].height }) = 1

\* the rows write_ICs reads: those at the start date
StartRows(d, from) == SelectSeq(d.rows, LAMBDA r : r.datetime = from)

\* C5: write_timeheight fails whenever exactly one or exactly two of xmom,
\* ymom, zmom are given, whatever temp is; with all three or none of them
\* given it succeeds and writes the file when the data are a full
\* time-height grid without missing values in the requested fields.
C5_MomentumCompleteness ==
    (iphase = "constructed" /\ icall.op = "write_timeheight") =>
        /\ MomentumGiven(icall) \in {1, 2} => iraised.exc = "AssertionError"
        /\ ( /\ MomentumGiven(icall) \in {0, 3}
             /\ FullGrid(self_df)
             /\ ~MissingIn(self_df, self_df.rows, icall) )
           => ( /\ iraised = NoError
                /\ OutFile \in DOMAIN ifiles
                /\ ifiles[OutFile].kind = "timeheight"
                /\ Len(ifiles[OutFile].blocks) =
                       (IF MomentumGiven(icall) = 3 THEN 4 ELSE 0)
                     + (IF icall.temp # NoField THEN 2 ELSE 0) )

\* all three momentum fields given, one of them absent from the data and
\* more than one height: the call succeeded and wrote the momentum blocks
C5_Witness ==
    /\ iphase = "constructed"
    /\ icall.op = "write_timeheight"
    /\ MomentumGiven(icall) = 3
    /\ icall.temp = NoField
    /\ iraised = NoError
    /\ Len(ifiles[OutFile].blocks) = 4
    /\ Len(ifiles[OutFile].blocks[2].rows) = MaxTimes
    /\ Len(ifiles[OutFile].blocks[1].rows) > 1

\* C6 as stated: for each of write_BCs, write_ICs and write_timeheight, a
\* missing value of a requested field in ANY row of the selected date range
\* makes the call fail and leaves the output file as it was.
C6_MissingAnywhereFails ==
    [][ (iphase = "constructed" /\ MissingIn(self_df, self_df.rows, icall'))
            => (iraised' # NoError /\ ifiles' = ifiles) ]_vars

\* C6, amended: write_BCs and write_timeheight fail, leaving the output file
\* as it was, when a requested field has a missing value in any row of the
\* selected date range; write_ICs does so when the missing value is in a
\* row at the start date, the only rows it reads.
C6_MissingInReadRowsFails ==
    [][ ( /\ iphase = "constructed"
          /\ MissingIn(self_df,
                       IF icall'.op = "write_ICs"
                       THEN StartRows(self_df, self_datefrom) ELSE self_df.rows,
                       icall') )
            => (iraised' # NoError /\ ifiles' = ifiles) ]_vars

\* write_ICs refused data with a missing theta at the start date and the
\* file an earlier call wrote is still there
C6_Witness ==
    /\ iphase = "constructed"
    /\ icall.op = "write_ICs"
    /\ iraised.exc = "AssertionError"
    /\ MissingIn(self_df, StartRows(self_df, self_datefrom), icall)
    /\ OutFile \in DOMAIN ifiles
    /\ ifiles[OutFile].kind = "BCs"

\* the sourceTable blocks of the file a successful write_timeheight call
\* wrote: position of the block, of its sourceHeights block, and its field
TableEntries(call) ==
    LET mom == IF MomentumGiven(call) = 3
               THEN { [heights |-> 1, table |-> 2, field |-> call.xmom],
                      [heights |-> 1, table |-> 3, field |-> call.ymom],
                      [heights |-> 1, table |-> 4, field |-> call.zmom] }
               ELSE {}
        off == IF MomentumGiven(call) = 3 THEN 4 ELSE 0
        tmp == IF call.temp # NoField
               THEN { [heights |-> off + 1, table |-> off + 2, field |-> call.temp] }
               ELSE {}
    IN  mom \cup tmp

\* the rows of the data are in increasing order of (time, height)
RowsSorted(d) ==
    \A k, l \in DOMAIN d.rows :
        k < l => \/ d.rows[k].datetime < d.rows[l].datetime
                 \/ /\ d.rows[k].datetime = d.rows[l].datetime
                    /\ d.rows[k].height < d.rows[l].height

\* C11: in the file write_timeheight wrote, whatever the order of the input
\* rows, the i-th row of every sourceTable block starts with the t_index of
\* a time and its j-th value is the field's value at that time and at the
\* j-th height of the preceding sourceHeights block.
C11_TimeHeightAligned ==
    (iphase = "constructed" /\ icall.op = "write_timeheight" /\ iraised = NoError) =>
        \A e \in TableEntries(icall) :
            LET hs == ifiles[OutFile].blocks[e.heights].rows
                tb == ifiles[OutFile].blocks[e.table].rows
            IN  \A i \in DOMAIN tb : \A j \in DOMAIN hs :
                    \E k \in DOMAIN self_df.rows :
                        /\ self_df.rows[k].t_index = tb[i][1]
                        /\ self_df.rows[k].height = hs[j][1]
                        /\ Value(self_df.rows[k], e.field) = tb[i][j + 1]

\* C12: no write call changes the data the writer holds: after any sequence
\* of write_BCs, write_ICs and write_timeheight calls self.df has the columns
\* and the values it had right after construction, and write_BCs on a field
\* that is no column of the source data fails whatever was called before.
C12_WritesLeaveDataAlone ==
    iphase = "constructed" =>
        /\ self_df = InternalCoupling_init(df, iargs.dateref, iargs.datefrom,
                                           iargs.dateto).df
        /\ (icall.op = "write_BCs" /\ icall.fieldname \notin Columns(df))
               => iraised # NoError

=============================================================================
